---- MODULE Spec2Model ----
(***************************************************************************)
(* Socket based RPC of src/runtime/rpc/rpc_socket_impl.cc: the client side *)
(* handshake of RPCConnect, byte by byte over a stream socket with short   *)
(* sends and receives, the listener it talks to, the out-of-band exception *)
(* frame of rpc.ReturnException, the client session and the server loop    *)
(* over one connection, and SockChannel on its own.                        *)
(***************************************************************************)
EXTENDS Integers, Sequences, FiniteSets, TLC

(***************************************************************************)
(* Bounds of the model.                                                    *)
(***************************************************************************)
\* longest identity key (local or remote), in bytes
MaxKeyLen == 2
\* number of RPCConnect invocations of one run
MaxCalls == 2
\* number of user invokes on a returned endpoint
MaxInvoke == 1
\* longest message handed to rpc.ReturnException, in bytes
MaxMsgLen == 1
\* number of invokes on the client session of one run
MaxSessCalls == 2
\* longest argument of an invoke, in units
MaxPayload == 1
\* largest size handed to one SockChannel::Send or Recv, in bytes
MaxIoSize == 4
\* most call frames a peer delivers to the two server-loop entry points
MaxServeCalls == 2
\* most Metal devices the system reports
MaxDevices == 2
\* most calls of MetalWorkspace::Global() and of GetTempBuffer together,
\* over all threads
MaxMetalCalls == 4
\* largest size asked of GetTempBuffer
MaxBufSize == 2

(***************************************************************************)
(* Program constants.                                                      *)
(***************************************************************************)
\* kRPCMagic, used at rpc_socket_impl.cc:76 (declared 0xff271 in rpc_endpoint.h)
kRPCMagic == 1045105
\* sizeof(int): the width of code and keylen on the wire
SizeofInt == 4

\* the bytes keys are made of
KeyAlphabet == {97, 98}

RECURSIVE SeqsUpTo(_, _)
SeqsUpTo(S, n) ==
    IF n = 0 THEN {<<>>}
    ELSE LET shorter == SeqsUpTo(S, n - 1)
         IN  shorter \cup {Append(s, b) : s \in {t \in shorter : Len(t) = n - 1}, b \in S}

\* the keys callers connect with: byte 97 throughout, or 98 as the last byte
Keys == {k \in SeqsUpTo(KeyAlphabet, MaxKeyLen) : \A i \in 1..(Len(k) - 1) : k[i] = 97}

\* the keys a server advertises as its own
ServerKeys == SeqsUpTo({98}, MaxKeyLen)

\* init_seq values handed to RPCConnect
InitSeqs == {"noargs", "ctor"}

Min(a, b) == IF a < b THEN a ELSE b

Take(s, n) == SubSeq(s, 1, n)
Drop(s, n) == SubSeq(s, n + 1, Len(s))

IsPrefix(p, s) == Len(p) <= Len(s) /\ Take(s, Len(p)) = p

(***************************************************************************)
(* An int as the SizeofInt raw bytes SendAll(&code, sizeof(code)) puts on  *)
(* the wire (two's complement, least significant byte first), and back.    *)
(***************************************************************************)
EncodeInt32(n) ==
    LET m == IF n < 0 THEN (n + 2147483647) + 1 ELSE n
        top == (m \div 16777216) + (IF n < 0 THEN 128 ELSE 0)
    IN  <<m % 256, (m \div 256) % 256, (m \div 65536) % 256, top>>

DecodeInt32(b) ==
    LET low == b[1] + 256 * b[2] + 65536 * b[3] + 16777216 * (b[4] % 128)
    IN  IF b[4] >= 128 THEN (low - 2147483647) - 1 ELSE low

\* memory [at+1 .. at+Len(bytes)] of a buffer overwritten by received bytes
Overwrite(mem, at, bytes) ==
    [i \in 1..Len(mem) |->
        IF i > at /\ i <= at + Len(bytes) THEN bytes[i - at] ELSE mem[i]]

\* std::string::resize(n) of an empty string: n zero bytes
Resize(n) == [i \in 1..n |-> 0]

(***************************************************************************)
(* The messages RPCConnect fails with.                                     *)
(***************************************************************************)
\* LOG(FATAL) of line 86
KeyNotFound == "cannot find server that matches key"
\* LOG(FATAL) of line 89
KeyConflict == "server already have key"
\* LOG(FATAL) of line 92
ProtocolMismatch == "is not TVM RPC server"
\* ICHECK(sock.Connect(addr)) of line 73
ConnectFailed == "Connect failed"
\* ICHECK_EQ on the count a SendAll or RecvAll returns
CheckFailed == "Check failed"
\* Socket::Error raised inside SendAll or RecvAll when the socket reports -1
SocketError == "Socket error"

TransportErrors == {ConnectFailed, CheckFailed, SocketError}

VARIABLES
    pc,          \* where the running RPCConnect stands
    calls,       \* RPCConnect invocations so far
    key,         \* argument key
    init_seq,    \* argument init_seq
    server,      \* what listens at url:port: "listener" or "foreign"
    sock,        \* the socket of this invocation: none, created, connected, closed
    attempts,    \* sock.Connect calls of this invocation
    code,        \* local int code
    keylen,      \* local int keylen
    remote_key,  \* local std::string remote_key
    ndone,       \* bytes the running SendAll or RecvAll has transferred
    short_io,    \* whether a send or recv of this invocation moved fewer bytes than asked
    c2s,         \* bytes this socket has put on the wire, in order
    s2c,         \* bytes the server has sent that the client has not yet received
    rcvd,        \* bytes this socket has received, in order
    recv_called, \* whether this invocation has called recv
    srv,         \* the server side of this connection: waiting, replied, closed
    advertised,  \* the key the server sent after its code
    error,       \* the message RPCConnect threw, "" if none
    endpt,       \* the RPCEndpoint created, <<>> if none
    frames,      \* call frames written on this connection
    conns,       \* endpoints returned by earlier invocations and still live
    claimed,     \* listener: keys held by live connections
    xpc,         \* rpc.ReturnException: the field it writes next
    msg,         \* rpc.ReturnException: argument msg
    xwire,       \* rpc.ReturnException: bytes the socket accepted
    xerror       \* rpc.ReturnException: whether an error was raised

\* one connection in use: the client session of RPCClientConnect and the
\* server loop of RPCServerLoop(sockfd) at its other end
VARIABLES
    cep,         \* client endpoint: none, live, closed, killed
    cpc,         \* per calling thread: idle, writing, reading
    cur,         \* the call the endpoint carries out, or carried out last
    cout,        \* units of the call frame not yet sent
    cin,         \* units of the response received so far
    cres,        \* what the last invoke that ended returned, and to whom
    ncall,       \* invokes begun
    ncw,         \* call frames written in full
    nrr,         \* response frames received in full
    remoted,     \* whether an invoke has raised a remote error
    csock,       \* descriptor of the client's SockChannel
    cs,          \* units in flight from client to server
    sc,          \* units in flight from server to client
    link,        \* the connection between the two: up, down
    spc,         \* server loop: idle, reading, dispatch, writing, returned, raised, killed
    sin,         \* units of the call frame the server has received so far
    sout,        \* units of the response not yet sent
    ssock,       \* descriptor handed to RPCServerLoop
    scall,       \* the call the server loop read last
    nread,       \* call frames the server loop has read in full
    swrote,      \* units of the response to scall sent so far
    nresp        \* response frames the server loop has written in full

\* one SockChannel on its own, lines 36-66
VARIABLES
    chan,        \* the descriptor the channel holds; none before construction
    io,          \* the last Send or Recv on the channel
    dtor         \* what the destructor did

connVars == <<pc, calls, key, init_seq, server, sock, attempts, code, keylen,
              remote_key, ndone, short_io, c2s, s2c, rcvd, recv_called, srv,
              advertised, error, endpt, frames, conns, claimed>>
excVars == <<xpc, msg, xwire, xerror>>
clientVars == <<cep, cpc, cur, cout, cin, cres, ncall, ncw, nrr, remoted, csock>>
serverVars == <<spc, sin, sout, ssock, scall, nread, swrote, nresp>>
sessVars == <<clientVars, serverVars, cs, sc, link>>
chanVars == <<chan, io, dtor>>

\* RPCClientConnect, lines 108-112
VARIABLES
    user_key      \* the key the caller of RPCClientConnect passed

clientCallVars == <<user_key>>

\* the two RPCServerLoop entry points of lines 115-123, each fed the same bytes
VARIABLES
    feed,         \* the units the peer delivers before it shuts its end down
    lp            \* per entry point: the endpoint and where its ServerLoop is

serveVars == <<feed, lp>>

\* metal_device_api.mm: the static of MetalWorkspace::Global() and the
\* workspace it points to
VARIABLES
    guard,            \* initialisation of the static inst: "uninit", "running", "done"
    inst,             \* the static pointer inst of line 41; 0 before it is set
    nctor,            \* runs of the constructor MetalWorkspace() so far
    gpc,              \* per thread: where its call of Global() is
    why,              \* per thread: the registered function that made the call
    gret,             \* the pointers Global() has returned
    ngcall,           \* calls of Global() so far
    exited,           \* the process has exited
    destroyed,        \* the instances destroyed at exit
    devices,          \* devices.size()
    default_streams_, \* the default stream of each device; 0 is the null pointer
    nstream,          \* Stream objects created so far
    deleted,          \* per Stream object, how often it has been deleted
    nreset            \* calls of ReinitializeDefaultStreams after the constructor's

\* MetalThreadEntry, lines 334-364: the thread-local temporary buffers
VARIABLES
    temp_buffer_,     \* per thread: the cached buffer of each device, as its
                      \* length; 0 is nil
    last,             \* the latest call of GetTempBuffer and what it did
    ntemp             \* calls of GetTempBuffer so far

globalVars == <<guard, inst, nctor, gpc, why, gret, ngcall, exited, destroyed>>
streamVars == <<devices, default_streams_, nstream, deleted, nreset>>
tempVars == <<temp_buffer_, last, ntemp>>
metalVars == <<globalVars, streamVars, tempVars>>
restVars == <<clientCallVars, serveVars, metalVars>>
vars == <<connVars, excVars, sessVars, chanVars, restVars>>

(***************************************************************************)
(* The listener's side of the handshake (spec, section 4.2): the keys it   *)
(* has a handler for, the reply codes a server may send.                   *)
(***************************************************************************)
\* line 110: the bytes of "client:"
ClientPrefix == <<99, 108, 105, 101, 110, 116, 58>>

\* keys the listener has a registered handler for: those made of byte 97
\* only, bare or after "client:"
Registered ==
    LET Plain == {k \in Keys : \A i \in 1..Len(k) : k[i] = 97}
    IN  Plain \cup {ClientPrefix \o k : k \in Plain}

\* what a server that is no compliant listener may answer
ForeignCodes == {kRPCMagic, kRPCMagic + 1, kRPCMagic + 2, kRPCMagic + 3, -1}

RequestComplete(bytes) ==
    /\ Len(bytes) >= 2 * SizeofInt
    /\ Len(bytes) = 2 * SizeofInt + DecodeInt32(SubSeq(bytes, SizeofInt + 1, 2 * SizeofInt))

ParseRequest(bytes) ==
    [magic |-> DecodeInt32(Take(bytes, SizeofInt)),
     key   |-> Drop(bytes, 2 * SizeofInt)]

\* a listener that does not look at the keys held
ListenerCode_NoHeld(req, held) ==
    IF req.key \notin Registered THEN kRPCMagic + 2 ELSE kRPCMagic

\* the code a compliant listener answers a request with
ListenerCode(req, held) ==
    IF req.key \notin Registered THEN kRPCMagic + 2
    ELSE IF req.key \in held THEN kRPCMagic + 1
    ELSE kRPCMagic

(***************************************************************************)
(* RPCConnect, lines 68-106.                                               *)
(***************************************************************************)
\* lines 76-82: what the client sends, field by field
HandshakeRequest(k) ==
    EncodeInt32(kRPCMagic) \o EncodeInt32(Len(k)) \o k

\* CodeBranch with the tests of lines 84 and 87 exchanged
CodeBranch_Swapped(c) ==
    IF c = kRPCMagic + 1 THEN KeyNotFound
    ELSE IF c = kRPCMagic + 2 THEN KeyConflict
    ELSE IF c # kRPCMagic THEN ProtocolMismatch
    ELSE ""

\* CodeBranch without the branch of lines 87-89
CodeBranch_NoConflict(c) ==
    IF c = kRPCMagic + 2 THEN KeyNotFound
    ELSE IF c # kRPCMagic THEN ProtocolMismatch
    ELSE ""

\* CodeBranch without the last branch, lines 90-93
CodeBranch_NoElse(c) ==
    IF c = kRPCMagic + 2 THEN KeyNotFound
    ELSE IF c = kRPCMagic + 1 THEN KeyConflict
    ELSE ""

\* CodeBranch with the message of line 86 at line 89 too
CodeBranch_SameMessage(c) ==
    IF c = kRPCMagic + 2 THEN KeyNotFound
    ELSE IF c = kRPCMagic + 1 THEN KeyNotFound
    ELSE IF c # kRPCMagic THEN ProtocolMismatch
    ELSE ""

\* lines 84-93: the message LOG(FATAL) throws for a reply code, "" for kRPCMagic
CodeBranch(c) ==
    IF c = kRPCMagic + 2 THEN KeyNotFound
    ELSE IF c = kRPCMagic + 1 THEN KeyConflict
    ELSE IF c # kRPCMagic THEN ProtocolMismatch
    ELSE ""

\* the count a SendAll or RecvAll returns left unchecked
ICHECK_EQ_Unchecked(x, y) == TRUE

\* ICHECK_EQ(x, y)
ICHECK_EQ(x, y) == x = y

\* NextStage with the key sent before its length
NextStage_KeyFirst(st, n) ==
    CASE st = "send_magic"  -> IF n # 0 THEN "send_key" ELSE "send_keylen"
      [] st = "send_key"    -> "send_keylen"
      [] st = "send_keylen" -> "recv_code"
      [] st = "recv_code"   -> "recv_keylen"
      [] st = "recv_keylen" -> IF n # 0 THEN "recv_key" ELSE "create"
      [] st = "recv_key"    -> "create"
      [] st = "create"      -> "init"
      [] st = "init"        -> "returned"

\* NextStage with the endpoint created before the remote key is read
NextStage_NoKeyRead(st, n) ==
    CASE st = "send_magic"  -> "send_keylen"
      [] st = "send_keylen" -> IF n # 0 THEN "send_key" ELSE "recv_code"
      [] st = "send_key"    -> "recv_code"
      [] st = "recv_code"   -> "recv_keylen"
      [] st = "recv_keylen" -> "create"
      [] st = "recv_key"    -> "create"
      [] st = "create"      -> "init"
      [] st = "init"        -> "returned"

\* NextStage without the call of InitRemoteSession
NextStage_NoInit(st, n) ==
    CASE st = "send_magic"  -> "send_keylen"
      [] st = "send_keylen" -> IF n # 0 THEN "send_key" ELSE "recv_code"
      [] st = "send_key"    -> "recv_code"
      [] st = "recv_code"   -> "recv_keylen"
      [] st = "recv_keylen" -> IF n # 0 THEN "recv_key" ELSE "create"
      [] st = "recv_key"    -> "create"
      [] st = "create"      -> "returned"
      [] st = "init"        -> "returned"

\* NextStage with the key sent and received whatever its length
NextStage_AlwaysKey(st, n) ==
    CASE st = "send_magic"  -> "send_keylen"
      [] st = "send_keylen" -> "send_key"
      [] st = "send_key"    -> "recv_code"
      [] st = "recv_code"   -> "recv_keylen"
      [] st = "recv_keylen" -> "recv_key"
      [] st = "recv_key"    -> "create"
      [] st = "create"      -> "init"
      [] st = "init"        -> "returned"

\* lines 78-105: the statement RPCConnect runs after the one at stage st, n
\* being keylen: a key is sent (line 80) or received (line 96) only if n != 0
NextStage(st, n) ==
    CASE st = "send_magic"  -> "send_keylen"
      [] st = "send_keylen" -> IF n # 0 THEN "send_key" ELSE "recv_code"
      [] st = "send_key"    -> "recv_code"
      [] st = "recv_code"   -> "recv_keylen"
      [] st = "recv_keylen" -> IF n # 0 THEN "recv_key" ELSE "create"
      [] st = "recv_key"    -> "create"
      [] st = "create"      -> "init"
      [] st = "init"        -> "returned"

\* RPCEndpointCreate with its two keys exchanged
RPCEndpointCreate_Swapped(k, rk) == [name |-> rk, remote_key |-> k]

\* line 102: RPCEndpoint::Create(std::move(channel), key, remote_key)
RPCEndpointCreate(k, rk) == [name |-> k, remote_key |-> rk]

(***************************************************************************)
(* The connection after the handshake.  Frames are sequences of units: a   *)
(* length, a tag and a body (spec, section 6).  The two ends are the       *)
(* client session made by RPCClientConnect, lines 108-112, and the server  *)
(* loop of RPCServerLoop(sockfd), lines 115-118, each over a SockChannel,  *)
(* lines 36-66.                                                            *)
(***************************************************************************)
\* RPCCode::kCallFunc and RPCCode::kReturn, the tags of call and return frames
kCallFunc == 3
kReturn == 4
\* RPCCode::kException, the marker of an exception frame
kException == 5

\* the threads that share the client session
Callers == {"t1", "t2"}

\* procedure names a caller may invoke, and the unit each travels as
Names == {"echo", "fail", "nosuch"}
NameId(name) == CASE name = "echo" -> 1 [] name = "fail" -> 2 [] name = "nosuch" -> 3
NameOfId(i) == CHOOSE name \in Names : NameId(name) = i

\* the server's registry: echo returns its argument, fail raises it
Registry == {"echo", "fail"}

\* arguments of an invoke: the units 1, 2, .. n for each length n
Payloads == {[i \in 1..n |-> i] : n \in 0..MaxPayload}

\* the text of the error for a name the registry does not hold
NotFoundText == <<110>>

\* a frame: the number of units that follow, the tag, the body
Frame(tag, body) == <<Len(body) + 1, tag>> \o body
CallFrame(name, p) == Frame(kCallFunc, <<NameId(name)>> \o p)
ReturnFrame_Truncated(v) == Frame(kReturn, Take(v, Len(v) - 1))
ReturnFrame(v) == Frame(kReturn, v)
ExceptionResponse(m) == Frame(kException, m)

\* units a reader with buf in hand still wants of the frame it is reading
FrameNeed(buf) == IF buf = <<>> THEN 1 ELSE 1 + buf[1] - Len(buf)
FrameComplete(buf) == buf # <<>> /\ Len(buf) = 1 + buf[1]

\* the call a call frame carries
ParseCall(buf) == [name |-> NameOfId(buf[3]), arg |-> Drop(buf, 3)]

\* what the server loop answers to a call: an exception frame when the name
\* is not registered or the procedure raises, else a return frame
Dispatch_ReturnsOnRaise(call) == ReturnFrame(call.arg)

Dispatch(call) ==
    IF call.name \notin Registry THEN ExceptionResponse(NotFoundText)
    ELSE IF call.name = "fail" THEN ExceptionResponse(call.arg)
    ELSE ReturnFrame(call.arg)

\* what the client's invoke makes of a complete response frame
DecodeResponse_DropsText(buf) ==
    IF buf[2] = kException
    THEN [kind |-> "remote", val |-> <<>>]
    ELSE [kind |-> "value", val |-> Drop(buf, 2)]

DecodeResponse(buf) ==
    IF buf[2] = kException
    THEN [kind |-> "remote", val |-> Drop(buf, 2)]
    ELSE [kind |-> "value", val |-> Drop(buf, 2)]

\* send(fd, data, size) on a descriptor in state fd whose peer is gone or
\* not: -1 on a bad descriptor, a broken link or a closed peer, else a count
SockSend(fd, gone, up, size) ==
    IF fd # "socket" \/ ~up \/ gone THEN {-1}
    ELSE IF size = 0 THEN {0}
    ELSE 1..size

\* recv(fd, data, size) with q in flight: -1 on a bad descriptor or a broken
\* link, a count while data is there, 0 once the peer has closed; with
\* nothing in flight and the peer there the call does not return
SockRecv_Hangs(fd, q, gone, up, size) ==
    IF fd # "socket" \/ ~up THEN {-1}
    ELSE IF q # <<>> THEN 1..Min(size, Len(q))
    ELSE {}

SockRecv(fd, q, gone, up, size) ==
    IF fd # "socket" \/ ~up THEN {-1}
    ELSE IF q # <<>> THEN 1..Min(size, Len(q))
    ELSE IF gone THEN {0}
    ELSE {}

\* lines 49-55: SockChannel::Send on the count n of sock_.Send
SockChannelSend_Swallow(n) == [raised |-> FALSE, ret |-> IF n = -1 THEN 0 ELSE n]

SockChannelSend(n) ==
    IF n = -1 THEN [raised |-> TRUE, ret |-> 0] ELSE [raised |-> FALSE, ret |-> n]

\* lines 56-62: SockChannel::Recv on the count n of sock_.Recv
SockChannelRecv_Swallow(n) == [raised |-> FALSE, ret |-> IF n = -1 THEN 0 ELSE n]

SockChannelRecv(n) ==
    IF n = -1 THEN [raised |-> TRUE, ret |-> 0] ELSE [raised |-> FALSE, ret |-> n]

\* the states of a descriptor handed to a SockChannel: an open socket, the
\* invalid descriptor, or a stale number that is not an open socket any more
Descriptors == {"socket", "invalid", "stale"}

\* TCPSocket::BadSocket on a descriptor: an open socket is good, an invalid
\* or closed one is bad, and on a stale one the query of the socket's error
\* fails and BadSocket throws (line 42)
BadSocket(fd) ==
    CASE fd = "socket" -> [throws |-> FALSE, bad |-> FALSE]
      [] fd = "stale"  -> [throws |-> TRUE, bad |-> FALSE]
      [] OTHER         -> [throws |-> FALSE, bad |-> TRUE]

\* lines 40-48: ~SockChannel; the descriptor afterwards, and whether an
\* error leaves the destructor
DestroySockChannel_Uncaught(fd) ==
    LET b == BadSocket(fd)
    IN  IF b.throws THEN [sock |-> fd, propagated |-> TRUE]
        ELSE IF ~b.bad THEN [sock |-> "closed", propagated |-> FALSE]
        ELSE [sock |-> fd, propagated |-> FALSE]

DestroySockChannel_NoClose(fd) == [sock |-> fd, propagated |-> FALSE]

DestroySockChannel(fd) ==
    LET b == BadSocket(fd)
    IN  IF b.throws THEN [sock |-> fd, propagated |-> FALSE]
        ELSE IF ~b.bad THEN [sock |-> "closed", propagated |-> FALSE]
        ELSE [sock |-> fd, propagated |-> FALSE]

\* no SockChannel operation yet, no destructor run yet
NoIO == [op |-> "none", asked |-> 0, sys |-> 0, raised |-> FALSE, ret |-> 0]
NoDtor == [before |-> "none", after |-> "none", propagated |-> FALSE]
\* no invoke has returned yet
NoResult == [by |-> "none", kind |-> "none", val |-> <<>>, after_remote |-> FALSE]

SessInit ==
    /\ cep = "none"
    /\ cpc = [t \in Callers |-> "idle"]
    /\ cur = [name |-> "echo", arg |-> <<>>]
    /\ cout = <<>>
    /\ cin = <<>>
    /\ cres = NoResult
    /\ ncall = 0
    /\ ncw = 0
    /\ nrr = 0
    /\ remoted = FALSE
    /\ csock = "none"
    /\ cs = <<>>
    /\ sc = <<>>
    /\ link = "up"
    /\ spc = "idle"
    /\ sin = <<>>
    /\ sout = <<>>
    /\ ssock = "none"
    /\ scall = [name |-> "echo", arg |-> <<>>]
    /\ nread = 0
    /\ swrote = <<>>
    /\ nresp = 0
    /\ chan = "none"
    /\ io = NoIO
    /\ dtor = NoDtor

\* the two overloads of RPCServerLoop: lines 115-118 and lines 120-123
Entries == {"sockfd", "callbacks"}

\* lines 117 and 122: the channel each overload wraps its transport in
ChannelOf(e) == IF e = "sockfd" THEN "SockChannel" ELSE "CallbackChannel"

\* an overload that names its endpoint after its transport
ServerLoopKey_ByEntry(e) == IF e = "sockfd" THEN "SockServerLoop" ELSE "CallbackServerLoop"

\* lines 117 and 122: the local key each overload creates its endpoint with
ServerLoopKey(e) == "SockServerLoop"

\* lines 115-123: the units an overload reads or writes on its transport
\* before it enters ServerLoop
EntryHandshakeIO(e) == 0

\* the call frames a peer may deliver, and the streams made of them: any
\* number of whole frames up to MaxServeCalls, cut off anywhere
ServeFrames == {CallFrame(name, p) : name \in Names, p \in Payloads}

RECURSIVE Flatten(_)
Flatten(fs) == IF fs = <<>> THEN <<>> ELSE Head(fs) \o Flatten(Tail(fs))

Feeds ==
    {Take(Flatten(fs), Min(n, Len(Flatten(fs)))) :
         fs \in SeqsUpTo(ServeFrames, MaxServeCalls),
         n \in 0..(MaxServeCalls * (3 + MaxPayload))}

\* an entry point not yet called
IdleLoop ==
    [pc |-> "idle", chan |-> "none", ep |-> <<>>, hs |-> 0, pos |-> 0,
     buf |-> <<>>, out |-> <<>>, log |-> <<>>, wrote |-> <<>>]

ServeInit ==
    /\ feed = <<>>
    /\ lp = [e \in Entries |-> IdleLoop]

\* the threads that use the Metal device API
MetalThreads == {"m1", "m2"}

\* lines 366-376: the registered functions that call MetalWorkspace::Global()
GlobalCallers == {"device_api.metal", "metal.ResetGlobalState"}

\* no call of GetTempBuffer yet
NoTempCall ==
    [by |-> "none", dev |-> 0, size |-> 0, before |-> 0, defstream |-> 0,
     raised |-> FALSE, ret |-> 0, synced |-> 0, events |-> <<>>]

\* the process starts: the static of line 41 is not initialised, no
\* workspace exists
MetalInit ==
    /\ guard = "uninit"
    /\ inst = 0
    /\ nctor = 0
    /\ gpc = [t \in MetalThreads |-> "idle"]
    /\ why = [t \in MetalThreads |-> "device_api.metal"]
    /\ gret = {}
    /\ ngcall = 0
    /\ exited = FALSE
    /\ destroyed = {}
    /\ devices = 0
    /\ default_streams_ = <<>>
    /\ nstream = 0
    /\ deleted = <<>>
    /\ nreset = 0
    /\ temp_buffer_ = [t \in MetalThreads |-> <<>>]
    /\ last = NoTempCall
    /\ ntemp = 0

Running == pc \notin {"idle", "returned", "failed"}

Init ==
    /\ pc = "idle"
    /\ calls = 0
    /\ key = <<>>
    /\ init_seq = "noargs"
    /\ server = "listener"
    /\ sock = "none"
    /\ attempts = 0
    /\ code = 0
    /\ keylen = 0
    /\ remote_key = <<>>
    /\ ndone = 0
    /\ short_io = FALSE
    /\ c2s = <<>>
    /\ s2c = <<>>
    /\ rcvd = <<>>
    /\ recv_called = FALSE
    /\ srv = "waiting"
    /\ advertised = <<>>
    /\ error = ""
    /\ endpt = <<>>
    /\ frames = <<>>
    /\ conns = {}
    /\ claimed = {}
    /\ xpc = "idle"
    /\ msg = <<>>
    /\ xwire = <<>>
    /\ xerror = FALSE
    /\ SessInit
    /\ user_key = <<>>
    /\ ServeInit
    /\ MetalInit

\* lines 68-72: a caller invokes RPCConnect(url, port, key, enable_logging,
\* init_seq); an endpoint an earlier invocation returned stays with the caller
RPCConnectEnter(k, a, sv) ==
    /\ ~Running
    /\ calls < MaxCalls
    /\ calls' = calls + 1
    /\ conns' = IF pc = "returned"
                THEN conns \cup {[id |-> calls, key |-> endpt[1].name, server |-> server]}
                ELSE conns
    /\ key' = k
    /\ init_seq' = a
    /\ server' = sv
    /\ sock' = "created"
    /\ attempts' = 0
    /\ pc' = "connect"
    /\ code' = 0
    /\ keylen' = 0
    /\ remote_key' = <<>>
    /\ ndone' = 0
    /\ short_io' = FALSE
    /\ c2s' = <<>>
    /\ s2c' = <<>>
    /\ rcvd' = <<>>
    /\ recv_called' = FALSE
    /\ srv' = "waiting"
    /\ advertised' = <<>>
    /\ error' = ""
    /\ endpt' = <<>>
    /\ frames' = <<>>
    /\ UNCHANGED <<claimed, excVars, sessVars, chanVars>>

RPCConnectCall(k, a, sv) ==
    /\ RPCConnectEnter(k, a, sv)
    /\ UNCHANGED restVars

\* what throwing msg out of RPCConnect leaves behind: nothing is caught, and
\* TCPSocket has no destructor that closes
Throw(m) ==
    /\ pc' = "failed"
    /\ error' = m

\* lines 73-77: sock.Connect(addr) under ICHECK, then code and keylen are set
SockConnect ==
    /\ pc = "connect"
    /\ attempts' = attempts + 1
    /\ \/ /\ sock' = "connected"
          /\ pc' = "send_magic"
          /\ code' = kRPCMagic
          /\ keylen' = Len(key)
          /\ error' = error
       \/ /\ Throw(ConnectFailed)
          /\ UNCHANGED <<sock, code, keylen>>
    /\ UNCHANGED <<calls, key, init_seq, server, remote_key, ndone, short_io, c2s,
                   s2c, rcvd, recv_called, srv, advertised, endpt, frames, conns,
                   claimed, excVars, sessVars, chanVars, restVars>>

(***************************************************************************)
(* One send of the loop of TCPSocket::SendAll: the socket takes n >= 1 of  *)
(* the bytes still to go; SendAll returns once all of data has gone.       *)
(***************************************************************************)
SendAllStep(data) ==
    \E n \in 1..(Len(data) - ndone) :
        /\ c2s' = c2s \o SubSeq(data, ndone + 1, ndone + n)
        /\ short_io' = (short_io \/ n < Len(data) - ndone)
        /\ IF ndone + n < Len(data)
           THEN /\ ndone' = ndone + n
                /\ UNCHANGED <<pc, error>>
           ELSE IF ICHECK_EQ(ndone + n, Len(data))
           THEN /\ pc' = NextStage(pc, keylen)
                /\ ndone' = 0
                /\ error' = error
           ELSE /\ Throw(CheckFailed)
                /\ ndone' = ndone + n

\* line 78: ICHECK_EQ(sock.SendAll(&code, sizeof(code)), sizeof(code))
SendMagic ==
    /\ pc = "send_magic"
    /\ SendAllStep(EncodeInt32(code))
    /\ UNCHANGED <<calls, key, init_seq, server, sock, attempts, code, keylen,
                   remote_key, s2c, rcvd, recv_called, srv, advertised, endpt,
                   frames, conns, claimed, excVars, sessVars, chanVars, restVars>>

\* line 79: ICHECK_EQ(sock.SendAll(&keylen, sizeof(keylen)), sizeof(keylen))
SendKeylen ==
    /\ pc = "send_keylen"
    /\ SendAllStep(EncodeInt32(keylen))
    /\ UNCHANGED <<calls, key, init_seq, server, sock, attempts, code, keylen,
                   remote_key, s2c, rcvd, recv_called, srv, advertised, endpt,
                   frames, conns, claimed, excVars, sessVars, chanVars, restVars>>

\* lines 80-82: ICHECK_EQ(sock.SendAll(key.c_str(), keylen), keylen)
SendKey ==
    /\ pc = "send_key"
    /\ SendAllStep(key)
    /\ UNCHANGED <<calls, key, init_seq, server, sock, attempts, code, keylen,
                   remote_key, s2c, rcvd, recv_called, srv, advertised, endpt,
                   frames, conns, claimed, excVars, sessVars, chanVars, restVars>>

\* send reports -1 inside SendAll: Socket::Error throws
SendFault ==
    /\ pc \in {"send_magic", "send_keylen", "send_key"}
    /\ Throw(SocketError)
    /\ UNCHANGED <<calls, key, init_seq, server, sock, attempts, code, keylen,
                   remote_key, ndone, short_io, c2s, s2c, rcvd, recv_called, srv,
                   advertised, endpt, frames, conns, claimed, excVars, sessVars, chanVars, restVars>>

(***************************************************************************)
(* What follows a RecvAll of RPCConnect that passed its ICHECK_EQ, the     *)
(* locals holding c, kl: the branch on code of lines 84-93, the resize of  *)
(* line 97.                                                                *)
(***************************************************************************)
AfterRecv(c, kl, rk) ==
    /\ ndone' = 0
    /\ IF pc = "recv_code" /\ CodeBranch(c) # ""
       THEN /\ sock' = "closed"
            /\ Throw(CodeBranch(c))
            /\ remote_key' = rk
       ELSE /\ sock' = sock
            /\ error' = error
            /\ pc' = NextStage(pc, kl)
            /\ remote_key' = IF pc = "recv_keylen"
                             THEN (IF kl # 0 THEN Resize(kl) ELSE <<>>)
                             ELSE rk

\* the bytes of the local the running RecvAll fills
RecvTarget ==
    CASE pc = "recv_code"   -> EncodeInt32(code)
      [] pc = "recv_keylen" -> EncodeInt32(keylen)
      [] pc = "recv_key"    -> remote_key

(***************************************************************************)
(* One recv of the loop of TCPSocket::RecvAll into the local of this       *)
(* stage: the socket hands over n >= 1 of the bytes that have arrived, at  *)
(* most as many as are still wanted.  Lines 83, 94 and 98.                 *)
(***************************************************************************)
RecvAllStep ==
    /\ pc \in {"recv_code", "recv_keylen", "recv_key"}
    /\ s2c # <<>>
    /\ \E n \in 1..Min(Len(RecvTarget) - ndone, Len(s2c)) :
        LET mem == Overwrite(RecvTarget, ndone, Take(s2c, n))
            c   == IF pc = "recv_code" THEN DecodeInt32(mem) ELSE code
            kl  == IF pc = "recv_keylen" THEN DecodeInt32(mem) ELSE keylen
            rk  == IF pc = "recv_key" THEN mem ELSE remote_key
        IN  /\ s2c' = Drop(s2c, n)
            /\ rcvd' = rcvd \o Take(s2c, n)
            /\ recv_called' = TRUE
            /\ short_io' = (short_io \/ n < Len(RecvTarget) - ndone)
            /\ code' = c
            /\ keylen' = kl
            /\ IF ndone + n < Len(RecvTarget)
               THEN /\ ndone' = ndone + n
                    /\ remote_key' = rk
                    /\ UNCHANGED <<pc, sock, error>>
               ELSE IF ICHECK_EQ(ndone + n, Len(RecvTarget))
               THEN AfterRecv(c, kl, rk)
               ELSE /\ Throw(CheckFailed)
                    /\ ndone' = ndone + n
                    /\ remote_key' = rk
                    /\ sock' = sock
    /\ UNCHANGED <<calls, key, init_seq, server, attempts, c2s, srv, advertised,
                   endpt, frames, conns, claimed, excVars, sessVars, chanVars, restVars>>

\* recv reports 0 (the peer has shut down): RecvAll returns the count so
\* far, which the ICHECK_EQ of lines 83, 94, 98 compares with the size asked
RecvEOF ==
    /\ pc \in {"recv_code", "recv_keylen", "recv_key"}
    /\ s2c = <<>>
    /\ recv_called' = TRUE
    /\ IF ICHECK_EQ(ndone, Len(RecvTarget))
       THEN AfterRecv(code, keylen, remote_key)
       ELSE /\ Throw(CheckFailed)
            /\ UNCHANGED <<sock, remote_key, ndone>>
    /\ UNCHANGED <<calls, key, init_seq, server, attempts, code, keylen, short_io,
                   c2s, s2c, rcvd, srv, advertised, endpt, frames, conns, claimed,
                   excVars, sessVars, chanVars, restVars>>

\* recv reports -1 inside RecvAll: Socket::Error throws
RecvFault ==
    /\ pc \in {"recv_code", "recv_keylen", "recv_key"}
    /\ recv_called' = TRUE
    /\ Throw(SocketError)
    /\ UNCHANGED <<calls, key, init_seq, server, sock, attempts, code, keylen,
                   remote_key, ndone, short_io, c2s, s2c, rcvd, srv, advertised,
                   endpt, frames, conns, claimed, excVars, sessVars, chanVars, restVars>>

\* lines 101-102: the socket is wrapped in a SockChannel and the endpoint is
\* created over it with key and remote_key
CreateEndpoint ==
    /\ pc = "create"
    /\ endpt' = <<RPCEndpointCreate(key, remote_key)>>
    /\ pc' = NextStage(pc, keylen)
    /\ UNCHANGED <<calls, key, init_seq, server, sock, attempts, code, keylen,
                   remote_key, ndone, short_io, c2s, s2c, rcvd, recv_called, srv,
                   advertised, error, frames, conns, claimed, excVars, sessVars, chanVars, restVars>>

\* lines 104-105: endpt->InitRemoteSession(init_seq) writes the init call on
\* the connection, then the endpoint is returned
InitRemoteSession ==
    /\ pc = "init"
    /\ frames' = Append(frames, <<"init", init_seq>>)
    /\ pc' = NextStage(pc, keylen)
    /\ UNCHANGED <<calls, key, init_seq, server, sock, attempts, code, keylen,
                   remote_key, ndone, short_io, c2s, s2c, rcvd, recv_called, srv,
                   advertised, error, endpt, conns, claimed, excVars, sessVars, chanVars, restVars>>

\* the caller, holding the endpoint RPCConnect returned, invokes a procedure
Invoke ==
    /\ pc = "returned"
    /\ endpt # <<>>
    /\ Len(frames) <= MaxInvoke
    /\ frames' = Append(frames, <<"call", "f">>)
    /\ UNCHANGED <<pc, calls, key, init_seq, server, sock, attempts, code, keylen,
                   remote_key, ndone, short_io, c2s, s2c, rcvd, recv_called, srv,
                   advertised, error, endpt, conns, claimed, excVars, sessVars, chanVars, restVars>>

\* the caller drops an endpoint an earlier invocation returned: its channel
\* closes and the listener releases the key.  The listener handles a request
\* in one step (ListenerReply), so a disconnect during a running handshake
\* is seen by it as one before or after that handshake
Disconnect(c) ==
    /\ ~Running
    /\ c \in conns
    /\ conns' = conns \ {c}
    /\ claimed' = IF c.server = "listener" THEN claimed \ {c.key} ELSE claimed
    /\ UNCHANGED <<pc, calls, key, init_seq, server, sock, attempts, code, keylen,
                   remote_key, ndone, short_io, c2s, s2c, rcvd, recv_called, srv,
                   advertised, error, endpt, frames, excVars, sessVars, chanVars, restVars>>

(***************************************************************************)
(* The server's side (spec, section 4.2).  A compliant listener reads the  *)
(* whole request, answers kRPCMagic + 2 for a key it has no handler for,   *)
(* kRPCMagic + 1 for a key a live connection holds, and otherwise          *)
(* kRPCMagic, its key length and its key, and records the key as held.     *)
(***************************************************************************)
ListenerReply ==
    /\ server = "listener"
    /\ srv = "waiting"
    /\ sock = "connected"
    /\ RequestComplete(c2s)
    /\ ParseRequest(c2s).magic = kRPCMagic
    /\ LET rc == ListenerCode(ParseRequest(c2s), claimed)
       IN  \E sk \in ServerKeys :
             /\ s2c' = s2c \o EncodeInt32(rc) \o
                       (IF rc = kRPCMagic THEN EncodeInt32(Len(sk)) \o sk ELSE <<>>)
             /\ advertised' = IF rc = kRPCMagic THEN sk ELSE <<>>
             /\ rc # kRPCMagic => sk = <<>>
             /\ claimed' = IF rc = kRPCMagic
                           THEN claimed \cup {ParseRequest(c2s).key}
                           ELSE claimed
    /\ srv' = "replied"
    /\ UNCHANGED <<pc, calls, key, init_seq, server, sock, attempts, code, keylen,
                   remote_key, ndone, short_io, c2s, rcvd, recv_called, error,
                   endpt, frames, conns, excVars, sessVars, chanVars, restVars>>

\* a server that is no compliant listener answers any code, and sends a key
\* length and a key after it whatever the code
ForeignReply ==
    /\ server = "foreign"
    /\ srv = "waiting"
    /\ sock = "connected"
    /\ RequestComplete(c2s)
    /\ \E rc \in ForeignCodes, sk \in ServerKeys :
         /\ rc # kRPCMagic => Len(sk) = 1
         /\ s2c' = s2c \o EncodeInt32(rc) \o EncodeInt32(Len(sk)) \o sk
         /\ advertised' = sk
    /\ srv' = "replied"
    /\ UNCHANGED <<pc, calls, key, init_seq, server, sock, attempts, code, keylen,
                   remote_key, ndone, short_io, c2s, rcvd, recv_called, error,
                   endpt, frames, conns, claimed, excVars, sessVars, chanVars, restVars>>

\* the server's end goes away while the client still reads: what it had sent
\* and the client had not yet received is lost, and recv reports 0 or -1
PeerClose ==
    /\ pc \in {"recv_code", "recv_keylen", "recv_key"}
    /\ s2c # <<>>
    /\ s2c' = <<>>
    /\ srv' = "closed"
    /\ UNCHANGED <<pc, calls, key, init_seq, server, sock, attempts, code, keylen,
                   remote_key, ndone, short_io, c2s, rcvd, recv_called, advertised,
                   error, endpt, frames, conns, claimed, excVars, sessVars, chanVars, restVars>>

Next ==
    \/ \E k \in Keys, a \in InitSeqs, sv \in {"listener", "foreign"} :
         RPCConnectCall(k, a, sv)
    \/ SockConnect
    \/ SendMagic
    \/ SendKeylen
    \/ SendKey
    \/ SendFault
    \/ RecvAllStep
    \/ RecvEOF
    \/ RecvFault
    \/ CreateEndpoint
    \/ InitRemoteSession
    \/ Invoke
    \/ \E c \in conns : Disconnect(c)
    \/ ListenerReply
    \/ ForeignReply
    \/ PeerClose

Spec == Init /\ [][Next]_vars

(***************************************************************************)
(* RPCClientConnect, lines 108-112: RPCConnect with "client:" + key, the   *)
(* endpoint then handed to the client session.                             *)
(***************************************************************************)
\* RPCClientConnect passing the key on as it is
RPCClientConnectKey_Bare(k) == k

\* line 110: the key RPCClientConnect passes to RPCConnect
RPCClientConnectKey(k) == ClientPrefix \o k

\* lines 108-110: a caller (rpc.Connect, lines 125-131) invokes
\* RPCClientConnect(url, port, key, enable_logging, init_seq)
RPCClientConnectCall(k, a, sv) ==
    /\ RPCConnectEnter(RPCClientConnectKey(k), a, sv)
    /\ user_key' = k
    /\ UNCHANGED <<serveVars, metalVars>>

ClientNext ==
    \/ \E k \in Keys, a \in InitSeqs, sv \in {"listener", "foreign"} :
         RPCClientConnectCall(k, a, sv)
    \/ SockConnect
    \/ SendMagic
    \/ SendKeylen
    \/ SendKey
    \/ SendFault
    \/ RecvAllStep
    \/ RecvEOF
    \/ RecvFault
    \/ CreateEndpoint
    \/ InitRemoteSession
    \/ Invoke
    \/ \E c \in conns : Disconnect(c)
    \/ ListenerReply
    \/ ForeignReply
    \/ PeerClose

ClientSpec == Init /\ [][ClientNext]_vars

(***************************************************************************)
(* Properties of RPCConnect.                                               *)
(***************************************************************************)
\* the reply code has been read in full, and its value as sent
ReplyCodeRead == Len(rcvd) >= SizeofInt
ReplyCode == DecodeInt32(Take(rcvd, SizeofInt))

\* this invocation made no endpoint, wrote no call, and connected once
NoEndpointNoRetry == endpt = <<>> /\ frames = <<>> /\ attempts = 1

\* C1: once the reply code kRPCMagic + 2 has been read, RPCConnect has closed
\* the socket and failed with KeyNotFound; nothing was sent beyond the
\* handshake request and nothing received beyond the four bytes of the code,
\* no endpoint exists, no call was written, and there was one connect only.
C1_KeyNotFound ==
    (ReplyCodeRead /\ ReplyCode = kRPCMagic + 2) =>
        /\ pc = "failed"
        /\ error = KeyNotFound
        /\ sock = "closed"
        /\ c2s = HandshakeRequest(key)
        /\ Len(rcvd) = SizeofInt
        /\ NoEndpointNoRetry

\* kRPCMagic + 2 was answered with more bytes behind it, which stay unread
C1_Witness ==
    /\ ReplyCodeRead
    /\ ReplyCode = kRPCMagic + 2
    /\ error = KeyNotFound
    /\ s2c # <<>>
    /\ sock = "closed"

\* the listener connections the caller holds that hold key k
Holding(k) == {c \in conns : c.server = "listener" /\ c.key = k}

\* C2: once the reply code kRPCMagic + 1 has been read, RPCConnect has closed
\* the socket and failed with KeyConflict, with no endpoint, no further I/O
\* and one connect only; and a connect to the listener with a key that a
\* live connection holds, once answered, has failed with KeyConflict while
\* that connection is still live and still holds the key at the listener.
C2_KeyConflict ==
    /\ (ReplyCodeRead /\ ReplyCode = kRPCMagic + 1) =>
          /\ pc = "failed"
          /\ error = KeyConflict
          /\ sock = "closed"
          /\ c2s = HandshakeRequest(key)
          /\ Len(rcvd) = SizeofInt
          /\ NoEndpointNoRetry
    /\ (ReplyCodeRead /\ server = "listener" /\ Holding(key) # {}) =>
          /\ pc = "failed"
          /\ error = KeyConflict
          /\ sock = "closed"
          /\ endpt = <<>>
          /\ \A c \in Holding(key) : c.key \in claimed

\* a second connect with the key of a live first connection was refused
C2_Witness ==
    /\ calls = 2
    /\ server = "listener"
    /\ Holding(key) # {}
    /\ ReplyCodeRead
    /\ error = KeyConflict
    /\ sock = "closed"

\* C3: once a reply code other than kRPCMagic, kRPCMagic + 1, kRPCMagic + 2
\* has been read, RPCConnect has closed the socket and failed with
\* ProtocolMismatch; it has read the four bytes of the code and no byte of a
\* key length or key, made no endpoint, and connected once.
C3_ProtocolMismatch ==
    (ReplyCodeRead /\ ReplyCode \notin {kRPCMagic, kRPCMagic + 1, kRPCMagic + 2}) =>
        /\ pc = "failed"
        /\ error = ProtocolMismatch
        /\ sock = "closed"
        /\ Len(rcvd) = SizeofInt
        /\ NoEndpointNoRetry

\* a negative code was answered, with a key length and key behind it
C3_Witness ==
    /\ ReplyCodeRead
    /\ ReplyCode = -1
    /\ error = ProtocolMismatch
    /\ Len(s2c) > SizeofInt
    /\ sock = "closed"

\* the reply of a server that accepts: kRPCMagic, its key length, its key
AcceptReply(sk) == EncodeInt32(kRPCMagic) \o EncodeInt32(Len(sk)) \o sk

\* C4: once the client has read kRPCMagic, the key length and the key the
\* server advertised, RPCConnect has not failed, and the endpoint it creates
\* records the key the client sent as local key and the advertised key, of
\* the received length, as remote key.
C4_EndpointKeys ==
    /\ (srv = "replied" /\ rcvd = AcceptReply(advertised)) =>
          /\ pc \in {"create", "init", "returned"}
          /\ error = ""
          /\ pc = "returned" => endpt # <<>>
    /\ endpt # <<>> =>
          /\ rcvd = AcceptReply(advertised)
          /\ endpt[1].name = key
          /\ endpt[1].remote_key = advertised
          /\ Len(endpt[1].remote_key) = keylen
          /\ keylen = DecodeInt32(SubSeq(rcvd, SizeofInt + 1, 2 * SizeofInt))
          /\ c2s = HandshakeRequest(key)

\* an endpoint was returned with a two-byte local and a two-byte remote key
C4_Witness ==
    /\ pc = "returned"
    /\ endpt # <<>>
    /\ Len(endpt[1].name) >= 2
    /\ Len(endpt[1].remote_key) >= 2
    /\ endpt[1].name # endpt[1].remote_key

\* C5: the bytes the client has put on the wire are at every moment a prefix
\* of magic, keylen, key in this order, and all of them are on the wire
\* before the first recv; of the reply the client reads the code first, a
\* key length only behind the code kRPCMagic, and after it at most keylen
\* bytes, which fill the remote key from its start.
C5_WireOrder ==
    /\ IsPrefix(c2s, HandshakeRequest(key))
    /\ recv_called => c2s = HandshakeRequest(key)
    /\ s2c # <<>> => c2s = HandshakeRequest(key)
    /\ ReplyCodeRead => code = ReplyCode
    /\ Len(rcvd) > SizeofInt => ReplyCode = kRPCMagic
    /\ Len(rcvd) >= 2 * SizeofInt =>
          keylen = DecodeInt32(SubSeq(rcvd, SizeofInt + 1, 2 * SizeofInt))
    /\ Len(rcvd) > 2 * SizeofInt =>
          /\ Len(rcvd) <= 2 * SizeofInt + keylen
          /\ \A i \in 1..(Len(rcvd) - 2 * SizeofInt) :
                remote_key[i] = rcvd[2 * SizeofInt + i]

\* the client is in the middle of reading a two-byte remote key, having sent
\* a two-byte key of its own
C5_Witness ==
    /\ pc = "recv_key"
    /\ Len(rcvd) = 2 * SizeofInt + 1
    /\ keylen >= 2
    /\ Len(key) >= 2
    /\ c2s = HandshakeRequest(key)

\* the handshake of this connection has run to its end, once
HandshakeComplete ==
    /\ c2s = HandshakeRequest(key)
    /\ Len(rcvd) >= 2 * SizeofInt
    /\ ReplyCode = kRPCMagic
    /\ Len(rcvd) = 2 * SizeofInt + DecodeInt32(SubSeq(rcvd, SizeofInt + 1, 2 * SizeofInt))
    /\ Len(remote_key) = Len(rcvd) - 2 * SizeofInt
    /\ attempts = 1

\* C6: in every state where an endpoint exists or a call frame has been
\* written on the connection, the handshake has completed: the whole request
\* was sent once, kRPCMagic was read, and the remote key was read in full.
C6_HandshakeFirst ==
    (endpt # <<>> \/ frames # <<>> \/ pc \in {"create", "init", "returned"})
        => HandshakeComplete

\* a user call has been written on a connection with a non-empty remote key
C6_Witness ==
    /\ Len(frames) >= 2
    /\ endpt # <<>>
    /\ Len(remote_key) >= 1
    /\ HandshakeComplete

\* C7: the first frame on a connection is the init call carrying init_seq,
\* written when the endpoint exists; the endpoint is with the caller only
\* after it, and every later frame is a user call.
C7_InitFirst ==
    /\ frames # <<>> =>
          /\ endpt # <<>>
          /\ frames[1] = <<"init", init_seq>>
          /\ \A i \in 2..Len(frames) : frames[i][1] = "call"
    /\ pc = "returned" => frames # <<>>
    /\ pc = "init" => (endpt # <<>> /\ frames = <<>>)

\* a user call follows the init call that carries the constructor arguments
C7_Witness ==
    /\ pc = "returned"
    /\ Len(frames) = 2
    /\ frames[1] = <<"init", "ctor">>
    /\ frames[2][1] = "call"

\* C8: a failed RPCConnect threw the KeyConflict message exactly when it read
\* kRPCMagic + 1, the KeyNotFound message exactly when it read
\* kRPCMagic + 2, the ProtocolMismatch message exactly when it read another
\* code that is not kRPCMagic, and a transport message exactly in the other
\* cases; the messages differ from one another.
C8_Distinguishable ==
    /\ Cardinality({KeyConflict, KeyNotFound, ProtocolMismatch} \cup TransportErrors) = 6
    /\ pc = "failed" =>
          /\ error = KeyConflict <=> (ReplyCodeRead /\ ReplyCode = kRPCMagic + 1)
          /\ error = KeyNotFound <=> (ReplyCodeRead /\ ReplyCode = kRPCMagic + 2)
          /\ error = ProtocolMismatch <=>
                (ReplyCodeRead /\ ReplyCode \notin {kRPCMagic, kRPCMagic + 1, kRPCMagic + 2})
          /\ error \in TransportErrors <=> (~ReplyCodeRead \/ ReplyCode = kRPCMagic)
    /\ pc # "failed" => error = ""

\* a transport failure after the code kRPCMagic was read
C8_Witness ==
    /\ pc = "failed"
    /\ ReplyCodeRead
    /\ ReplyCode = kRPCMagic
    /\ error = CheckFailed

\* what RPCConnect makes of key k and reply stream r when every field moves
\* in one chunk
OneChunkOutcome(k, r) ==
    LET c == DecodeInt32(Take(r, SizeofInt))
        n == DecodeInt32(SubSeq(r, SizeofInt + 1, 2 * SizeofInt))
    IN  IF CodeBranch(c) # ""
        THEN [error |-> CodeBranch(c), local |-> <<>>, remote |-> <<>>]
        ELSE [error |-> "", local |-> k,
              remote |-> SubSeq(r, 2 * SizeofInt + 1, 2 * SizeofInt + n)]

\* what this invocation has made of its key and reply
Outcome ==
    [error |-> error,
     local |-> IF endpt # <<>> THEN endpt[1].name ELSE <<>>,
     remote |-> IF endpt # <<>> THEN endpt[1].remote_key ELSE <<>>]

\* C9: however the transport splits the fields, an RPCConnect that ended
\* without a transport failure ended as it does when each field moves in one
\* chunk: the same message, or the same local and remote keys; and the
\* client goes on from a field only when its exact byte count has moved.
C9_PartialIO ==
    /\ (pc \in {"failed", "returned"} /\ calls > 0 /\ error \notin TransportErrors) =>
          Outcome = OneChunkOutcome(key, rcvd \o s2c)
    /\ pc \in {"recv_code", "recv_keylen", "recv_key", "create", "init", "returned"} =>
          c2s = HandshakeRequest(key)
    /\ pc \in {"recv_keylen", "recv_key", "create", "init", "returned"} =>
          Len(rcvd) >= SizeofInt
    /\ pc \in {"recv_key", "create", "init", "returned"} =>
          Len(rcvd) >= 2 * SizeofInt
    /\ pc \in {"create", "init", "returned"} =>
          Len(rcvd) = 2 * SizeofInt + keylen

\* a connect that moved some field in several chunks returned an endpoint
\* with a two-byte remote key
C9_Witness ==
    /\ pc = "returned"
    /\ short_io
    /\ Len(key) >= 2
    /\ Len(Outcome.remote) >= 2
    /\ Outcome = OneChunkOutcome(key, rcvd \o s2c)

\* C12: when RPCConnect has failed with a transport error (connect refused,
\* a send or recv error, or end of stream before a field's byte count), no
\* endpoint exists, no call was written, there was one connect only, and the
\* socket is closed.
C12_TransportFailureCloses ==
    (pc = "failed" /\ error \in TransportErrors) =>
        /\ NoEndpointNoRetry
        /\ sock = "closed"

\* the connections live at the listener: those returned earlier and not
\* dropped, and the present one once its handshake is complete
ListenerConns == {c \in conns : c.server = "listener"}
PresentAtListener ==
    server = "listener" /\ pc \in {"create", "init", "returned"}

ZeroKeylenRead ==
    /\ Len(rcvd) >= 2 * SizeofInt
    /\ ReplyCode = kRPCMagic
    /\ DecodeInt32(SubSeq(rcvd, SizeofInt + 1, 2 * SizeofInt)) = 0

\* C26: with an empty local key RPCConnect sends the magic and a key length
\* of 0 and never a key; after a reply of kRPCMagic and a key length of 0 it
\* receives nothing more, keeps the empty string as remote key, and goes on
\* to create the endpoint: the handshake has succeeded.
C26_ZeroLengthKeys ==
    /\ (calls > 0 /\ key = <<>>) =>
          /\ pc # "send_key"
          /\ IsPrefix(c2s, EncodeInt32(kRPCMagic) \o EncodeInt32(0))
    /\ ZeroKeylenRead =>
          /\ pc \in {"create", "init", "returned"}
          /\ Len(rcvd) = 2 * SizeofInt
          /\ remote_key = <<>>
          /\ error = ""
          /\ endpt # <<>> => endpt[1].remote_key = <<>>

\* a connect with the empty key to a listener that advertises the empty key
\* has returned its endpoint
C26_Witness ==
    /\ pc = "returned"
    /\ key = <<>>
    /\ ZeroKeylenRead
    /\ c2s = EncodeInt32(kRPCMagic) \o EncodeInt32(0)
    /\ endpt = <<[name |-> <<>>, remote_key |-> <<>>]>>

\* C25: RPCClientConnect called with key k runs the handshake with "client:"
\* followed by k: the key length sent is the length of that string, the key
\* bytes sent are that string, and the endpoint's local key is that string
\* and not k.
C25_ClientKeyPrefixed ==
    calls > 0 =>
        /\ key = ClientPrefix \o user_key
        /\ key # user_key
        /\ pc \in {"send_magic", "send_keylen", "send_key"}
              => keylen = Len(ClientPrefix) + Len(user_key)
        /\ IsPrefix(c2s, HandshakeRequest(ClientPrefix \o user_key))
        /\ pc \in {"recv_code", "recv_keylen", "recv_key", "create", "init", "returned"}
              => c2s = HandshakeRequest(ClientPrefix \o user_key)
        /\ endpt # <<>> => endpt[1].name = ClientPrefix \o user_key

\* RPCClientConnect with a key of the greatest length has returned
C25_Witness ==
    /\ pc = "returned"
    /\ Len(user_key) = MaxKeyLen
    /\ Drop(c2s, 2 * SizeofInt) = ClientPrefix \o user_key
    /\ endpt # <<>>
    /\ endpt[1].name = ClientPrefix \o user_key

(***************************************************************************)
(* rpc.ReturnException, lines 170-177, over SimpleSockHandler, lines       *)
(* 145-168.  The frame is the exception marker, the length of the text and *)
(* the text (spec, section 4.5); each field goes out through one call of   *)
(* SimpleSockHandler::Write.                                                *)
(***************************************************************************)
\* the messages handed to rpc.ReturnException
Messages == SeqsUpTo({111}, MaxMsgLen)

\* a length as the eight raw bytes of a uint64_t
EncodeUInt64(n) == EncodeInt32(n) \o <<0, 0, 0, 0>>

\* the fields of the exception frame for message m, in the order written
ExceptionFields(m) ==
    [marker |-> EncodeInt32(kException), len |-> EncodeUInt64(Len(m)), text |-> m]

ExceptionFrame(m) ==
    ExceptionFields(m).marker \o ExceptionFields(m).len \o ExceptionFields(m).text

\* what send(data, size) on the socket may report: -1, or a count up to size
SendResults(size) == {-1} \cup (IF size = 0 THEN {0} ELSE 1..size)

\* line 163: Write returns sock_.Send(data, size), one send; of data the
\* socket has taken the first r bytes, none if it reported -1
WriteTaken(data, r) == IF r = -1 THEN <<>> ELSE Take(data, r)

\* line 163: whether Write raises on the result r of its send of size bytes:
\* it returns r as it is, and the stream that called it drops the value
WriteRaises(r, size) == FALSE

\* lines 172-173: rpc.ReturnException(sockfd, msg) makes the handler
ReturnExceptionCall(m) ==
    /\ xpc = "idle"
    /\ msg' = m
    /\ xpc' = "marker"
    /\ xwire' = <<>>
    /\ xerror' = FALSE
    /\ UNCHANGED <<connVars, sessVars, chanVars, restVars>>

\* line 174: RPCReference::ReturnException writes the next field of the
\* frame through SimpleSockHandler::Write
WriteField ==
    /\ xpc \in {"marker", "len", "text"}
    /\ LET data == ExceptionFields(msg)[xpc]
       IN  \E r \in SendResults(Len(data)) :
             /\ xwire' = xwire \o WriteTaken(data, r)
             /\ IF WriteRaises(r, Len(data))
                THEN xerror' = TRUE /\ xpc' = "done"
                ELSE /\ xerror' = xerror
                     /\ xpc' = CASE xpc = "marker" -> "len"
                                 [] xpc = "len"    -> "text"
                                 [] xpc = "text"   -> "done"
    /\ UNCHANGED <<msg, connVars, sessVars, chanVars, restVars>>

\* line 175: the call returns; the next call starts from idle
ReturnExceptionReturn ==
    /\ xpc = "done"
    /\ xpc' = "idle"
    /\ UNCHANGED <<msg, xwire, xerror, connVars, sessVars, chanVars, restVars>>

ExcNext ==
    \/ \E m \in Messages : ReturnExceptionCall(m)
    \/ WriteField
    \/ ReturnExceptionReturn

ExcSpec == Init /\ [][ExcNext]_vars

\* C10: when rpc.ReturnException has written its frame, the peer has the
\* complete frame, or an error was raised; no frame is left partly written
\* without an error.
C10_ExceptionFrameWhole ==
    xpc = "done" => (xwire = ExceptionFrame(msg) \/ xerror)

\* the receiving side of an exception frame (spec, section 4.5): the bytes w
\* are a frame when they are the marker, a length and exactly that many
\* bytes of text; the error raised carries the text
DecodeExceptionFrame(w) ==
    LET head == SizeofInt + 2 * SizeofInt
    IN  IF /\ Len(w) >= head
           /\ DecodeInt32(Take(w, SizeofInt)) = kException
           /\ SubSeq(w, 2 * SizeofInt + 1, head) = <<0, 0, 0, 0>>
           /\ Len(w) = head + DecodeInt32(SubSeq(w, SizeofInt + 1, 2 * SizeofInt))
        THEN [ok |-> TRUE, text |-> Drop(w, head)]
        ELSE [ok |-> FALSE, text |-> <<>>]

\* C11: for every message, when rpc.ReturnException has returned, the peer
\* has exactly one exception frame, and decoding it gives an error whose
\* message is the message that was passed.
C11_ExceptionRoundTrip ==
    xpc = "done" =>
        /\ DecodeExceptionFrame(xwire).ok
        /\ DecodeExceptionFrame(xwire).text = msg

(***************************************************************************)
(* The client session and the server loop over one connection.  Each step  *)
(* below that sends or receives is one call of SockChannel::Send or        *)
(* SockChannel::Recv, lines 49-62; the endpoint repeats it until the frame *)
(* is whole (spec, sections 4.3, 4.4 and 5).                               *)
(***************************************************************************)
\* the record of one SockChannel operation
IoRecord(op, asked, n, r) ==
    [op |-> op, asked |-> asked, sys |-> n, raised |-> r.raised, ret |-> r.ret]

\* the record of one run of ~SockChannel on a descriptor in state fd
DtorRecord(fd) ==
    [before |-> fd, after |-> DestroySockChannel(fd).sock,
     propagated |-> DestroySockChannel(fd).propagated]

\* what the invoke of the call in hand returned to thread t
Result(t, kind, val) ==
    [by |-> t, kind |-> kind, val |-> val, after_remote |-> remoted]

\* the endpoint serializes its callers: an invoke begins only when no other
\* call is being written or awaited
CanBegin_Unlocked(t) == TRUE

CanBegin(t) == \A u \in Callers : cpc[u] = "idle"

\* neither process has been ended and the connection has not broken
Healthy == link = "up" /\ cep # "killed" /\ spc # "killed"

\* lines 108-112: RPCClientConnect has connected and returned the session
\* over the new endpoint; the server loop at the other end has answered the
\* init call of line 104
RPCClientConnectReturn ==
    /\ cep = "none"
    /\ spc = "reading"
    /\ ssock = "socket"
    /\ cep' = "live"
    /\ csock' = "socket"
    /\ UNCHANGED <<cpc, cur, cout, cin, cres, ncall, ncw, nrr, remoted, cs, sc, link,
                   serverVars, connVars, excVars, chanVars, restVars>>

\* lines 115-117: RPCServerLoop(sockfd) wraps the descriptor in a SockChannel
\* and an endpoint and enters ServerLoop
RPCServerLoopCall(fd) ==
    /\ spc = "idle"
    /\ spc' = "reading"
    /\ ssock' = fd
    /\ UNCHANGED <<sin, sout, scall, nread, swrote, nresp, cs, sc, link,
                   clientVars, connVars, excVars, chanVars, restVars>>

\* a thread invokes procedure name with argument p on the session
InvokeBegin(t, name, p) ==
    /\ cep = "live"
    /\ cpc[t] = "idle"
    /\ ncall < MaxSessCalls
    /\ CanBegin(t)
    /\ cpc' = [cpc EXCEPT ![t] = "writing"]
    /\ cur' = [name |-> name, arg |-> p]
    /\ cout' = CallFrame(name, p)
    /\ cin' = <<>>
    /\ ncall' = ncall + 1
    /\ UNCHANGED <<cep, cres, ncw, nrr, remoted, csock, cs, sc, link,
                   serverVars, connVars, excVars, chanVars, restVars>>

\* the invoke sends what is left of its call frame: one SockChannel::Send
ClientSend(t) ==
    /\ cep = "live"
    /\ cpc[t] = "writing"
    /\ \E n \in SockSend(csock, ssock = "closed", link = "up", Len(cout)) :
         LET r == SockChannelSend(n)
             rest == Drop(cout, r.ret)
         IN  IF r.raised
             THEN /\ cpc' = [cpc EXCEPT ![t] = "idle"]
                     /\ cres' = Result(t, "transport", <<>>)
                     /\ UNCHANGED <<cout, cs, ncw>>
                ELSE /\ cs' = cs \o Take(cout, r.ret)
                     /\ cout' = rest
                     /\ cpc' = [cpc EXCEPT ![t] = IF rest = <<>> THEN "reading" ELSE "writing"]
                     /\ ncw' = IF rest = <<>> THEN ncw + 1 ELSE ncw
                     /\ UNCHANGED cres
    /\ UNCHANGED <<cep, cur, cin, ncall, nrr, remoted, csock, sc, link,
                   serverVars, connVars, excVars, chanVars, restVars>>

\* the invoke receives more of the response: one SockChannel::Recv; a whole
\* return frame gives the value, a whole exception frame a local error with
\* the remote text, and an error or the end of the stream a transport error
ClientRecv(t) ==
    /\ cep = "live"
    /\ cpc[t] = "reading"
    /\ \E n \in SockRecv(csock, sc, ssock = "closed", link = "up", FrameNeed(cin)) :
         LET r == SockChannelRecv(n)
             buf == cin \o Take(sc, r.ret)
         IN  IF r.raised \/ r.ret = 0
                THEN /\ cpc' = [cpc EXCEPT ![t] = "idle"]
                     /\ cres' = Result(t, "transport", <<>>)
                     /\ UNCHANGED <<cin, sc, nrr, remoted>>
                ELSE /\ sc' = Drop(sc, r.ret)
                     /\ IF FrameComplete(buf)
                        THEN /\ cpc' = [cpc EXCEPT ![t] = "idle"]
                             /\ cres' = Result(t, DecodeResponse(buf).kind,
                                              DecodeResponse(buf).val)
                             /\ remoted' = (remoted \/ DecodeResponse(buf).kind = "remote")
                             /\ nrr' = nrr + 1
                             /\ cin' = <<>>
                        ELSE /\ cin' = buf
                             /\ UNCHANGED <<cpc, cres, nrr, remoted>>
    /\ UNCHANGED <<cep, cur, cout, ncall, ncw, csock, cs, link,
                   serverVars, connVars, excVars, chanVars, restVars>>

\* the caller drops the session between calls: the endpoint and its
\* SockChannel are destroyed, lines 40-48
ClientClose ==
    /\ cep = "live"
    /\ \A t \in Callers : cpc[t] = "idle"
    /\ cep' = "closed"
    /\ csock' = DestroySockChannel(csock).sock
    /\ UNCHANGED <<cpc, cur, cout, cin, cres, ncall, ncw, nrr, remoted, cs, sc, link,
                   serverVars, connVars, excVars, chanVars, restVars>>

\* the client process ends while a call is outstanding; its descriptor is
\* closed with it
ClientKill ==
    /\ Healthy
    /\ cep = "live"
    /\ \E t \in Callers : cpc[t] # "idle"
    /\ cep' = "killed"
    /\ csock' = "closed"
    /\ UNCHANGED <<cpc, cur, cout, cin, cres, ncall, ncw, nrr, remoted, cs, sc, link,
                   serverVars, connVars, excVars, chanVars, restVars>>

\* lines 115-118: ServerLoop leaves, by return or by exception; the
\* temporary endpoint goes and with it the SockChannel, lines 40-48
ExitServerLoop(how) ==
    /\ spc' = how
    /\ ssock' = DestroySockChannel(ssock).sock

\* how ServerLoop leaves when recv reports the end of the stream with buf in
\* hand: normally between frames, with an error inside a frame
EofExit_AlwaysReturn(buf) == "returned"

EofExit(buf) == IF buf = <<>> THEN "returned" ELSE "raised"

\* the server loop receives more of the next call frame: one
\* SockChannel::Recv
ServerRecv ==
    /\ spc = "reading"
    /\ \E n \in SockRecv(ssock, cs, csock = "closed", link = "up", FrameNeed(sin)) :
         LET r == SockChannelRecv(n)
             buf == sin \o Take(cs, r.ret)
         IN  IF r.raised
             THEN /\ ExitServerLoop("raised")
                     /\ UNCHANGED <<sin, cs, scall, nread>>
                ELSE IF r.ret = 0
                THEN /\ ExitServerLoop(EofExit(sin))
                     /\ UNCHANGED <<sin, cs, scall, nread>>
                ELSE /\ cs' = Drop(cs, r.ret)
                     /\ IF FrameComplete(buf)
                        THEN /\ spc' = "dispatch"
                             /\ scall' = ParseCall(buf)
                             /\ nread' = nread + 1
                             /\ sin' = <<>>
                        ELSE /\ sin' = buf
                             /\ UNCHANGED <<spc, scall, nread>>
                     /\ UNCHANGED ssock
    /\ UNCHANGED <<sout, swrote, nresp, sc, link, clientVars, connVars, excVars, chanVars, restVars>>

\* the server loop runs the procedure of the call it has read and has the
\* response frame to send
ServerDispatch ==
    /\ spc = "dispatch"
    /\ sout' = Dispatch(scall)
    /\ swrote' = <<>>
    /\ spc' = "writing"
    /\ UNCHANGED <<sin, ssock, scall, nread, nresp, cs, sc, link,
                   clientVars, connVars, excVars, chanVars, restVars>>

\* where the server loop goes once the response is written in full
AfterResponse_Stop == "returned"

AfterResponse == "reading"

\* the server loop sends what is left of the response: one SockChannel::Send
ServerSend ==
    /\ spc = "writing"
    /\ \E n \in SockSend(ssock, csock = "closed", link = "up", Len(sout)) :
         LET r == SockChannelSend(n)
             rest == Drop(sout, r.ret)
         IN  IF r.raised
             THEN /\ ExitServerLoop("raised")
                     /\ UNCHANGED <<sout, sc, swrote, nresp>>
                ELSE /\ sc' = sc \o Take(sout, r.ret)
                     /\ swrote' = swrote \o Take(sout, r.ret)
                     /\ sout' = rest
                     /\ spc' = IF rest = <<>> THEN AfterResponse ELSE "writing"
                     /\ nresp' = IF rest = <<>> THEN nresp + 1 ELSE nresp
                     /\ UNCHANGED ssock
    /\ UNCHANGED <<sin, scall, nread, cs, link, clientVars, connVars, excVars, chanVars, restVars>>

\* the server process ends while a call is outstanding; its descriptor is
\* closed with it
ServerKill ==
    /\ Healthy
    /\ cep = "live"
    /\ \E t \in Callers : cpc[t] # "idle"
    /\ spc \in {"reading", "dispatch", "writing"}
    /\ spc' = "killed"
    /\ ssock' = IF ssock = "socket" THEN "closed" ELSE ssock
    /\ UNCHANGED <<sin, sout, scall, nread, swrote, nresp, cs, sc, link,
                   clientVars, connVars, excVars, chanVars, restVars>>

\* the connection breaks while a call is outstanding: from now on send and
\* recv report -1 at both ends
LinkFault ==
    /\ Healthy
    /\ cep = "live"
    /\ \E t \in Callers : cpc[t] # "idle"
    /\ link' = "down"
    /\ UNCHANGED <<cs, sc, clientVars, serverVars, connVars, excVars, chanVars, restVars>>

SessNext ==
    \/ RPCClientConnectReturn
    \/ \E fd \in Descriptors : RPCServerLoopCall(fd)
    \/ \E t \in Callers, name \in Names, p \in Payloads : InvokeBegin(t, name, p)
    \/ \E t \in Callers : ClientSend(t)
    \/ \E t \in Callers : ClientRecv(t)
    \/ ClientClose
    \/ ClientKill
    \/ ServerRecv
    \/ ServerDispatch
    \/ ServerSend
    \/ ServerKill
    \/ LinkFault

SessSpec == Init /\ [][SessNext]_vars

\* a recv that can return does return: the call blocks only while the
\* kernel has neither data, nor the end of the stream, nor an error for it
FairSessSpec ==
    /\ SessSpec
    /\ \A t \in Callers : WF_vars(ClientRecv(t))
    /\ WF_vars(ServerRecv)

(***************************************************************************)
(* One SockChannel on its own, lines 36-66: made over a descriptor, sent   *)
(* and received on with any size and any state of the connection, and      *)
(* destroyed.                                                              *)
(***************************************************************************)
\* line 38: SockChannel(sock) takes the descriptor as it is
SockChannelCreate(fd) ==
    /\ chan = "none"
    /\ dtor = NoDtor
    /\ chan' = fd
    /\ UNCHANGED <<io, dtor, connVars, excVars, sessVars, restVars>>

\* lines 49-55: Send(data, size), one sock_.Send
ChannelSend(size) ==
    /\ chan # "none"
    /\ dtor = NoDtor
    /\ \E gone \in BOOLEAN, up \in BOOLEAN :
         \E n \in SockSend(chan, gone, up, size) :
            io' = IoRecord("Send", size, n, SockChannelSend(n))
    /\ UNCHANGED <<chan, dtor, connVars, excVars, sessVars, restVars>>

\* lines 56-62: Recv(data, size), one sock_.Recv, with avail bytes in flight
ChannelRecv(size) ==
    /\ chan # "none"
    /\ dtor = NoDtor
    /\ \E gone \in BOOLEAN, up \in BOOLEAN, avail \in 0..MaxIoSize :
         \E n \in SockRecv(chan, Resize(avail), gone, up, size) :
            io' = IoRecord("Recv", size, n, SockChannelRecv(n))
    /\ UNCHANGED <<chan, dtor, connVars, excVars, sessVars, restVars>>

\* lines 40-48: ~SockChannel
ChannelDestroy ==
    /\ chan # "none"
    /\ dtor = NoDtor
    /\ chan' = DestroySockChannel(chan).sock
    /\ dtor' = DtorRecord(chan)
    /\ UNCHANGED <<io, connVars, excVars, sessVars, restVars>>

ChanNext ==
    \/ \E fd \in Descriptors : SockChannelCreate(fd)
    \/ \E size \in 0..MaxIoSize : ChannelSend(size)
    \/ \E size \in 1..MaxIoSize : ChannelRecv(size)
    \/ ChannelDestroy

ChanSpec == Init /\ [][ChanNext]_vars

(***************************************************************************)
(* The two RPCServerLoop overloads, lines 115-123, run side by side on the *)
(* same delivered bytes: one over a SockChannel on the descriptor, one     *)
(* over a CallbackChannel on fsend and frecv.  Each loop reads and writes  *)
(* in chunks of its own.                                                   *)
(***************************************************************************)
\* frecv(size) with q still to come: some of it, or nothing once the peer
\* has delivered everything
CallbackRecv(q, size) == IF q # <<>> THEN 1..Min(size, Len(q)) ELSE {0}

\* fsend(bytes): the count the callback reports taken
CallbackSend(size) == IF size = 0 THEN {0} ELSE 1..size

\* CallbackChannel::Send and Recv on the count the callback reports
CallbackChannelSend(n) ==
    IF n = -1 THEN [raised |-> TRUE, ret |-> 0] ELSE [raised |-> FALSE, ret |-> n]

CallbackChannelRecv(n) ==
    IF n = -1 THEN [raised |-> TRUE, ret |-> 0] ELSE [raised |-> FALSE, ret |-> n]

\* one Recv of size units on the channel of entry e with q still to come
EntryRecv(e, q, size) ==
    IF ChannelOf(e) = "SockChannel"
    THEN {SockChannelRecv(n) : n \in SockRecv("socket", q, TRUE, TRUE, size)}
    ELSE {CallbackChannelRecv(n) : n \in CallbackRecv(q, size)}

\* one Send of size units on the channel of entry e
EntrySend(e, size) ==
    IF ChannelOf(e) = "SockChannel"
    THEN {SockChannelSend(n) : n \in SockSend("socket", FALSE, TRUE, size)}
    ELSE {CallbackChannelSend(n) : n \in CallbackSend(size)}

\* the peer fixes what it delivers, to both transports alike
Undelivered == feed = <<>> /\ \A e \in Entries : lp[e].pc = "idle"

PeerDeliver ==
    /\ Undelivered
    /\ \E f \in Feeds : f # <<>> /\ feed' = f
    /\ UNCHANGED <<lp, connVars, excVars, sessVars, chanVars, clientCallVars, metalVars>>

\* lines 115-117 and 120-122: the transport is wrapped in its channel, the
\* endpoint is created with the local key and an empty remote key, and
\* ServerLoop is entered
RPCServerLoopEnter(e) ==
    /\ lp[e].pc = "idle"
    /\ lp' = [lp EXCEPT ![e] =
                 [@ EXCEPT !.pc = "reading",
                           !.chan = ChannelOf(e),
                           !.ep = <<RPCEndpointCreate(ServerLoopKey(e), <<>>)>>,
                           !.hs = EntryHandshakeIO(e),
                           !.pos = EntryHandshakeIO(e)]]
    /\ UNCHANGED <<feed, connVars, excVars, sessVars, chanVars, clientCallVars, metalVars>>

\* the loop of entry e receives more of the next call frame; a whole frame
\* is dispatched and its response is there to send
ServeRecv(e) ==
    /\ lp[e].pc = "reading"
    /\ \E r \in EntryRecv(e, Drop(feed, lp[e].pos), FrameNeed(lp[e].buf)) :
         LET got == lp[e].buf \o SubSeq(feed, lp[e].pos + 1, lp[e].pos + r.ret)
         IN  lp' = [lp EXCEPT ![e] =
                 IF r.raised THEN [@ EXCEPT !.pc = "raised"]
                 ELSE IF r.ret = 0 THEN [@ EXCEPT !.pc = EofExit(lp[e].buf)]
                 ELSE IF FrameComplete(got)
                 THEN [@ EXCEPT !.pc = "writing",
                                !.pos = @ + r.ret,
                                !.buf = <<>>,
                                !.log = Append(@, ParseCall(got)),
                                !.out = Dispatch(ParseCall(got))]
                 ELSE [@ EXCEPT !.pos = @ + r.ret, !.buf = got]]
    /\ UNCHANGED <<feed, connVars, excVars, sessVars, chanVars, clientCallVars, metalVars>>

\* the loop of entry e sends what is left of the response
ServeSend(e) ==
    /\ lp[e].pc = "writing"
    /\ \E r \in EntrySend(e, Len(lp[e].out)) :
         LET rest == Drop(lp[e].out, r.ret)
         IN  lp' = [lp EXCEPT ![e] =
                 IF r.raised THEN [@ EXCEPT !.pc = "raised"]
                 ELSE [@ EXCEPT !.wrote = @ \o Take(lp[e].out, r.ret),
                                !.out = rest,
                                !.pc = IF rest = <<>> THEN AfterResponse ELSE "writing"]]
    /\ UNCHANGED <<feed, connVars, excVars, sessVars, chanVars, clientCallVars, metalVars>>

ServeNext ==
    \/ PeerDeliver
    \/ \E e \in Entries : RPCServerLoopEnter(e)
    \/ \E e \in Entries : ServeRecv(e)
    \/ \E e \in Entries : ServeSend(e)

ServeSpec == Init /\ [][ServeNext]_vars

(***************************************************************************)
(* metal_device_api.mm.  MetalWorkspace::Global(), lines 38-43: a function *)
(* static pointer initialised with new MetalWorkspace().  The language     *)
(* runs the initialiser of a function static once: the first thread to     *)
(* reach it runs it, and a thread that reaches it meanwhile waits.         *)
(***************************************************************************)
\* a static initialised without any synchronisation
GuardAdmits_Unsynchronised(g) == g # "done"

\* line 41: whether a thread reaching the static starts its initialiser
GuardAdmits(g) == g = "uninit"

\* a static MetalWorkspace object, which exit would destroy
AtExit_StaticObject(p) == IF p = 0 THEN {} ELSE {p}

\* lines 40-41: what exit destroys of a static pointer to a workspace made
\* with new: nothing
AtExit(p) == {}

\* ReinitializeDefaultStreams that drops the old streams undeleted
ReinitializeDefaultStreams_NoDelete(ds, n, ns, del) ==
    [streams |-> [i \in 1..n |-> ns + i],
     nstream |-> ns + n,
     deleted |-> [i \in 1..(ns + n) |-> IF i <= ns THEN del[i] ELSE 0]]

\* lines 150-159: every stream held is deleted, the vector is resized to
\* devices.size(), and a new Stream is made for every device
ReinitializeDefaultStreams(ds, n, ns, del) ==
    [streams |-> [i \in 1..n |-> ns + i],
     nstream |-> ns + n,
     deleted |-> [i \in 1..(ns + n) |->
                    IF i <= ns
                    THEN del[i] + Cardinality({j \in 1..Len(ds) : ds[j] = i})
                    ELSE 0]]

\* lines 216-221: CastStreamOrGetDefault(stream, device_id)
CastStreamOrGetDefault(stream, device_id) ==
    IF stream # 0 THEN [raised |-> FALSE, ret |-> stream]
    ELSE IF ~(device_id < Len(default_streams_)) THEN [raised |-> TRUE, ret |-> 0]
    ELSE IF default_streams_[device_id + 1] = 0 THEN [raised |-> TRUE, ret |-> 0]
    ELSE [raised |-> FALSE, ret |-> default_streams_[device_id + 1]]

\* lines 366-376: a registered function calls MetalWorkspace::Global().
\* The calls that change or use default_streams_ are made one at a time;
\* calls that only fetch the workspace run alongside them
ResetRunning == \E u \in MetalThreads : gpc[u] # "idle" /\ why[u] = "metal.ResetGlobalState"

GlobalCall(t, w) ==
    /\ ~exited
    /\ gpc[t] = "idle"
    /\ w = "metal.ResetGlobalState" => ~ResetRunning
    /\ ngcall + ntemp < MaxMetalCalls
    /\ ngcall' = ngcall + 1
    /\ gpc' = [gpc EXCEPT ![t] = "enter"]
    /\ why' = [why EXCEPT ![t] = w]
    /\ UNCHANGED <<guard, inst, nctor, gret, exited, destroyed, streamVars, tempVars,
                   connVars, excVars, sessVars, chanVars, clientCallVars, serveVars>>

\* line 41: the thread finds the static not initialised and starts on it
GlobalInitBegin(t) ==
    /\ gpc[t] = "enter"
    /\ GuardAdmits(guard)
    /\ guard' = "running"
    /\ gpc' = [gpc EXCEPT ![t] = "construct"]
    /\ UNCHANGED <<inst, nctor, why, gret, ngcall, exited, destroyed, streamVars, tempVars,
                   connVars, excVars, sessVars, chanVars, clientCallVars, serveVars>>

\* line 41 and lines 161-176: new MetalWorkspace() collects the devices and
\* calls ReinitializeDefaultStreams; the pointer is stored in inst
MetalWorkspaceNew(t) ==
    /\ gpc[t] = "construct"
    /\ \E n \in 0..MaxDevices :
         LET r == ReinitializeDefaultStreams(<<>>, n, nstream, deleted)
         IN  /\ devices' = n
             /\ default_streams_' = r.streams
             /\ nstream' = r.nstream
             /\ deleted' = r.deleted
    /\ nctor' = nctor + 1
    /\ inst' = nctor + 1
    /\ guard' = "done"
    /\ gpc' = [gpc EXCEPT ![t] = "return"]
    /\ UNCHANGED <<why, gret, ngcall, exited, destroyed, nreset, tempVars,
                   connVars, excVars, sessVars, chanVars, clientCallVars, serveVars>>

\* line 41: the thread finds the static initialised
GlobalInitialized(t) ==
    /\ gpc[t] = "enter"
    /\ guard = "done"
    /\ gpc' = [gpc EXCEPT ![t] = "return"]
    /\ UNCHANGED <<guard, inst, nctor, why, gret, ngcall, exited, destroyed, streamVars, tempVars,
                   connVars, excVars, sessVars, chanVars, clientCallVars, serveVars>>

\* line 42: Global() returns inst; lines 372-376: metal.ResetGlobalState
\* then calls ReinitializeDefaultStreams on it
GlobalReturn(t) ==
    /\ gpc[t] = "return"
    /\ gret' = gret \cup {inst}
    /\ gpc' = [gpc EXCEPT ![t] = "idle"]
    /\ IF why[t] = "metal.ResetGlobalState"
       THEN LET r == ReinitializeDefaultStreams(default_streams_, devices, nstream, deleted)
            IN  /\ default_streams_' = r.streams
                /\ nstream' = r.nstream
                /\ deleted' = r.deleted
                /\ nreset' = nreset + 1
                /\ UNCHANGED devices
       ELSE UNCHANGED streamVars
    /\ UNCHANGED <<guard, inst, nctor, why, ngcall, exited, destroyed, tempVars,
                   connVars, excVars, sessVars, chanVars, clientCallVars, serveVars>>

\* GetTempBuffer that replaces the cached buffer only when there is none
NeedNewBuffer_NoLengthTest(cache, d, size) == cache[d + 1] = 0

\* line 348: the cached buffer of device d is absent or shorter than size
NeedNewBuffer(cache, d, size) == cache[d + 1] = 0 \/ cache[d + 1] < size

\* lines 302-313: StreamSync(dev, nullptr); ok says that no error has
\* happened on the stream
StreamSync(d, ok) ==
    LET c == CastStreamOrGetDefault(0, d)
    IN  [raised |-> c.raised \/ ~ok, stream |-> c.ret]

\* lines 343-360: GetTempBuffer(dev, size) on the cache of the calling thread
GetTempBuffer(cache, d, size, ok) ==
    LET c1 == IF Len(cache) <= d
              THEN cache \o [i \in 1..(d + 1 - Len(cache)) |-> 0]
              ELSE cache
        sy == StreamSync(d, ok)
    IN  IF ~NeedNewBuffer(c1, d, size)
        THEN [cache |-> c1, raised |-> FALSE, ret |-> c1[d + 1], synced |-> 0,
              events |-> <<>>]
        ELSE IF c1[d + 1] = 0
        THEN [cache |-> [c1 EXCEPT ![d + 1] = size], raised |-> FALSE, ret |-> size,
              synced |-> 0, events |-> <<"newBuffer">>]
        ELSE IF sy.raised
        THEN [cache |-> c1, raised |-> TRUE, ret |-> 0, synced |-> 0,
              events |-> <<"StreamSync">>]
        ELSE [cache |-> [c1 EXCEPT ![d + 1] = size], raised |-> FALSE, ret |-> size,
              synced |-> sy.stream,
              events |-> <<"StreamSync", "setPurgeableState", "release", "newBuffer">>]

\* a thread calls GetTempBuffer for a device of the workspace
GetTempBufferCall(t, d, size, ok) ==
    /\ ~exited
    /\ guard = "done"
    /\ gpc[t] = "idle"
    /\ ~ResetRunning
    /\ d < devices
    /\ ngcall + ntemp < MaxMetalCalls
    /\ ntemp' = ntemp + 1
    /\ LET r == GetTempBuffer(temp_buffer_[t], d, size, ok)
       IN  /\ temp_buffer_' = [temp_buffer_ EXCEPT ![t] = r.cache]
           /\ last' = [by |-> t, dev |-> d, size |-> size,
                       before |-> IF d < Len(temp_buffer_[t])
                                  THEN temp_buffer_[t][d + 1] ELSE 0,
                       defstream |-> default_streams_[d + 1],
                       raised |-> r.raised, ret |-> r.ret, synced |-> r.synced,
                       events |-> r.events]
    /\ UNCHANGED <<globalVars, streamVars,
                   connVars, excVars, sessVars, chanVars, clientCallVars, serveVars>>

\* the process exits: objects of static storage duration are destroyed
ProcessExit ==
    /\ ~exited
    /\ \A t \in MetalThreads : gpc[t] = "idle"
    /\ exited' = TRUE
    /\ destroyed' = AtExit(inst)
    /\ UNCHANGED <<guard, inst, nctor, gpc, why, gret, ngcall, streamVars, tempVars,
                   connVars, excVars, sessVars, chanVars, clientCallVars, serveVars>>

MetalNext ==
    \/ \E t \in MetalThreads, w \in GlobalCallers : GlobalCall(t, w)
    \/ \E t \in MetalThreads : GlobalInitBegin(t)
    \/ \E t \in MetalThreads : MetalWorkspaceNew(t)
    \/ \E t \in MetalThreads : GlobalInitialized(t)
    \/ \E t \in MetalThreads : GlobalReturn(t)
    \/ \E t \in MetalThreads, d \in 0..(MaxDevices - 1), size \in 1..MaxBufSize,
          ok \in BOOLEAN : GetTempBufferCall(t, d, size, ok)
    \/ ProcessExit

MetalSpec == Init /\ [][MetalNext]_vars

(***************************************************************************)
(* Properties of the client session and the server loop.                   *)
(***************************************************************************)
\* the threads with a call outstanding
Outstanding == {t \in Callers : cpc[t] # "idle"}

\* C13: an endpoint has at most one call outstanding; calls written and
\* responses read alternate, and while the connection stands an invoke is
\* writing its call frame only when every earlier response has been consumed
\* in full.
C13_OneOutstanding ==
    /\ Cardinality(Outstanding) <= 1
    /\ ncw - nrr \in {0, 1}
    /\ \A t \in Callers :
         /\ cpc[t] = "reading" => ncw = nrr + 1
         /\ (cpc[t] = "writing" /\ link = "up" /\ ssock # "closed") =>
               /\ ncw = nrr
               /\ sc = <<>>
               /\ cin = <<>>

\* a second thread is writing its call after the first thread's response was
\* read in full
C13_Witness ==
    \E t \in Callers :
        /\ cpc[t] = "writing"
        /\ cout # CallFrame(cur.name, cur.arg)
        /\ nrr = 1
        /\ cres.by \notin {t, "none"}
        /\ cres.kind = "value"

\* no call is outstanding: cres is what the invoke of cur returned
Returned == Outstanding = {} /\ cres.kind # "none"

\* the server loop is running on an open socket
ServerRunning == spc \in {"reading", "dispatch", "writing"} /\ ssock = "socket"

\* C14: an invoke whose procedure raised on the server ends in a local error
\* that carries the remote text and no value; the connection stays usable:
\* unless a process was ended or the link broke, both sockets stay open and
\* the server loop runs on, and an invoke after it returns its value.
C14_RemoteException ==
    /\ (Returned /\ cres.kind = "remote") =>
          /\ cur.name # "echo"
          /\ cres.val = (IF cur.name = "fail" THEN cur.arg ELSE NotFoundText)
    /\ (cres.kind = "remote" /\ cep = "live" /\ Healthy) =>
          /\ csock = "socket"
          /\ ServerRunning
    /\ (Returned /\ cres.kind = "value" /\ cres.after_remote) =>
          /\ cur.name = "echo"
          /\ cres.val = cur.arg

\* an invoke of fail raised its text locally, and a later echo on the same
\* session returned its argument
C14_Witness ==
    /\ Returned
    /\ cres.kind = "value"
    /\ cres.after_remote
    /\ cur.arg # <<>>
    /\ cres.val = cur.arg
    /\ cep = "live"

\* whether the procedure a call names raises: fail does, and so does the
\* lookup of a name the registry lacks
Raises(call) == call.name # "echo"

\* C15: the server loop answers each call frame with exactly one response
\* frame before it reads the next call: an exception frame when the
\* procedure raised, a return frame otherwise; and it then reads on.
C15_OneResponsePerCall ==
    /\ nread - nresp \in {0, 1}
    /\ spc \in {"dispatch", "writing"} => nread = nresp + 1
    /\ spc \in {"reading", "returned"} => nread = nresp
    /\ spc = "writing" =>
          /\ FrameComplete(swrote \o sout)
          /\ (swrote \o sout)[2] = (IF Raises(scall) THEN kException ELSE kReturn)
    /\ (spc = "reading" /\ nresp > 0) =>
          /\ FrameComplete(swrote)
          /\ swrote[2] = (IF Raises(scall) THEN kException ELSE kReturn)
          /\ sin = <<>> => sout = <<>>

\* the loop has answered two calls, the second with an exception frame, and
\* is reading again
C15_Witness ==
    /\ spc = "reading"
    /\ nread = 2
    /\ nresp = 2
    /\ swrote[2] = kException
    /\ ssock = "socket"

\* C16: a call that names a procedure the registry lacks is answered with an
\* exception frame and ends at the client as a remote error, not as a
\* transport fault; the server loop runs on and the connection stays open.
C16_UnknownProcedure ==
    /\ (nread > 0 /\ scall.name \notin Registry) =>
          /\ spc = "writing" => swrote \o sout = ExceptionResponse(NotFoundText)
          /\ spc = "reading" => swrote = ExceptionResponse(NotFoundText)
          /\ (Healthy /\ cep = "live") => ServerRunning
    /\ (Returned /\ cur.name = "nosuch" /\ Healthy) =>
          /\ cres.kind = "remote"
          /\ cres.val = NotFoundText
          /\ cep = "live" => csock = "socket" /\ ServerRunning

\* the client gret the remote error for an unknown name and the loop reads on
C16_Witness ==
    /\ Returned
    /\ cur.name = "nosuch"
    /\ cres.kind = "remote"
    /\ scall.name = "nosuch"
    /\ spc = "reading"
    /\ cep = "live"
    /\ Healthy

\* C17: the server loop ends exactly when the connection ends: it returns
\* normally on the end of the stream between calls, it ends with an error on
\* a transport fault, it never ends while the channel is healthy, and either
\* way no open socket is left behind.
C17_LoopTermination ==
    /\ spc = "returned" =>
          /\ csock = "closed"
          /\ link = "up"
          /\ cs = <<>>
          /\ sin = <<>>
          /\ nread = nresp
    /\ spc = "raised" =>
          \/ link = "down"
          \/ ssock \in {"invalid", "stale"}
          \/ csock = "closed" /\ (sin # <<>> \/ nread = nresp + 1)
    /\ spc \in {"returned", "raised"} => ssock # "socket"

\* the loop answered a call, met the end of the stream and returned, and its
\* socket is closed
C17_Witness ==
    /\ spc = "returned"
    /\ nresp >= 1
    /\ ssock = "closed"
    /\ cep = "closed"

\* a side waits in recv with nothing in flight on a connection that has
\* been closed or has broken
ClientBlocked(t) ==
    /\ cep = "live"
    /\ cpc[t] = "reading"
    /\ sc = <<>> \/ link = "down"
    /\ ssock = "closed" \/ link = "down"

ServerBlocked ==
    /\ spc = "reading"
    /\ cs = <<>> \/ link = "down"
    /\ csock = "closed" \/ link = "down"

C19_SendRecvResult ==
    io.op # "none" =>
        /\ io.sys = -1 => io.raised
        /\ io.sys # -1 =>
              /\ ~io.raised
              /\ io.ret = io.sys
              /\ io.ret >= 0
              /\ io.ret <= io.asked

\* a Recv came back with fewer bytes than asked for
C19_Witness ==
    /\ io.op = "Recv"
    /\ io.ret >= 1
    /\ io.ret < io.asked
    /\ ~io.raised

\* C20: the destructor closes the descriptor exactly when it holds an open
\* socket, leaves an invalid or stale descriptor alone, and lets no error
\* out, whether of the validity check or of the close.
C20_DestructorCloses ==
    dtor.before # "none" =>
        /\ dtor.after = "closed" <=> dtor.before = "socket"
        /\ dtor.before # "socket" => dtor.after = dtor.before
        /\ ~dtor.propagated
        /\ chan = dtor.after

\* the validity check threw on a stale descriptor and the destructor
\* returned without closing anything
C20_Witness ==
    /\ dtor.before = "stale"
    /\ dtor.after = "stale"
    /\ ~dtor.propagated

\* C22: an invoke of echo that returned a value returned its argument, unit
\* for unit, for every argument length from 0 up; and unless a process was
\* ended or the link broke it did return a value.
C22_EchoRoundTrip ==
    (Returned /\ cur.name = "echo") =>
        /\ cres.kind # "remote"
        /\ cres.kind = "value" => cres.val = cur.arg
        /\ Healthy => cres.kind = "value"

\* an echo of the longest argument came back whole
C22_Witness ==
    /\ Returned
    /\ cur.name = "echo"
    /\ Len(cur.arg) = MaxPayload
    /\ cres.kind = "value"
    /\ cres.val = cur.arg

\* the loop of entry e has left ServerLoop
LoopDone(e) == lp[e].pc \in {"returned", "raised"}

\* one of two sequences continues the other
Consistent(a, b) == IsPrefix(a, b) \/ IsPrefix(b, a)

C24_GlobalOnce ==
    /\ nctor = (IF guard = "done" THEN 1 ELSE 0)
    /\ inst = nctor
    /\ gret \subseteq {1}
    /\ \A t \in MetalThreads : gpc[t] = "return" => inst = 1
    /\ (ngcall > 0 /\ \A t \in MetalThreads : gpc[t] = "idle") => gret = {1}
    /\ destroyed = {}

\* the process has exited after MaxMetalCalls calls of Global()
C24_Witness ==
    /\ exited
    /\ ngcall = MaxMetalCalls
    /\ nctor = 1
    /\ gret = {inst}
    /\ inst # 0
    /\ destroyed = {}

\* the streams default_streams_ holds
HeldStreams == {default_streams_[i] : i \in 1..Len(default_streams_)}

\* C27: once the constructor has run, and after every call of
\* ReinitializeDefaultStreams, default_streams_ holds one non-null stream per
\* device, each a live object of its own; every stream held earlier has
\* been deleted exactly once; and CastStreamOrGetDefault(null, d) returns
\* the default stream of d for every valid device id d.
C27_DefaultStreams ==
    guard = "done" =>
        /\ Len(default_streams_) = devices
        /\ Cardinality(HeldStreams) = devices
        /\ \A i \in 1..Len(default_streams_) :
              /\ default_streams_[i] \in 1..nstream
              /\ deleted[default_streams_[i]] = 0
        /\ \A id \in 1..nstream : id \notin HeldStreams => deleted[id] = 1
        /\ \A d \in 0..(devices - 1) :
              CastStreamOrGetDefault(0, d) =
                  [raised |-> FALSE, ret |-> default_streams_[d + 1]]

\* two resets after the constructor, with MaxDevices devices
C27_Witness ==
    /\ guard = "done"
    /\ devices = MaxDevices
    /\ nreset = 2
    /\ nstream = 3 * MaxDevices
    /\ HeldStreams = (2 * MaxDevices + 1)..(3 * MaxDevices)
    /\ CastStreamOrGetDefault(0, MaxDevices - 1).ret = 3 * MaxDevices

\* position of the first e in events, 0 if there is none
EventAt(events, e) ==
    IF \E i \in 1..Len(events) : events[i] = e
    THEN CHOOSE i \in 1..Len(events) : events[i] = e /\ \A j \in 1..(i - 1) : events[j] # e
    ELSE 0

====
